---- MODULE Spec2Model ----
(***************************************************************************)
(* Detrended Fluctuation Analysis tool (src/DFA/DFA.py, src/DFA/main.py).   *)
(*                                                                         *)
(* DFA_Method computes the fluctuation F of one window size, DFA_F_Plot    *)
(* sweeps logarithmically spaced window sizes and fits the log-log line.   *)
(*                                                                         *)
(* Numbers.  The program computes in IEEE floating point; the model        *)
(* computes the same expressions in exact rational arithmetic.  A rational *)
(* is a record [n, d] in lowest terms with d > 0; d = 0 stands for the     *)
(* float NaN (0/0).  F = sqrt(fluctuation) is irrational in general, so a  *)
(* value F is carried as the record [sqrt_of |-> fluctuation]: sqrt is     *)
(* injective and monotone on the non-negative numbers, so two F values are *)
(* equal exactly when these records are equal.                             *)
(***************************************************************************)
EXTENDS Integers, Sequences, FiniteSets, TLC

VARIABLES
    x,                  \* time axis of the series (torch tensor, as a sequence)
    y,                  \* amplitude axis of the series
    pc,                 \* position of the running call
    window_size,        \* DFA_Method: argument of the last direct call
    frame,              \* DFA_Method: locals and result of the last call
    initial_window_size,\* DFA_F_Plot: argument
    window_size_step,   \* DFA_F_Plot: argument
    has_hook,           \* DFA_F_Plot: whether a hook was passed
    Windows_sizes,      \* DFA_F_Plot: the unique rounded window sizes (ascending)
    idx,                \* DFA_F_Plot: loop index (0-based, as enumerate gives it)
    F_RMS,              \* DFA_F_Plot: F values collected so far
    sizes_called,       \* window sizes DFA_Method was invoked with, in order
    hook_calls,         \* values the hook was invoked with, in order
    integrations,       \* number of times line 36 computed the integrated series
    ret,                \* value returned by DFA_F_Plot (<<>> while none)
    txt_path,           \* App.txt_path
    save_path,          \* App.save_path
    plot_button,        \* App.plot_button: state of the widget
    workers,            \* the threads App.plot_data started, in order
    progress,           \* App.progress["value"]
    progress_label,     \* App.progress_label: the number in its text
    widget_writes       \* per progress widget, the thread that wrote it last

vars == <<x, y, pc, window_size, frame, initial_window_size, window_size_step,
          has_hook, Windows_sizes, idx, F_RMS, sizes_called, hook_calls,
          integrations, ret, txt_path, save_path, plot_button, workers,
          progress, progress_label, widget_writes>>

\* the state of the window (src/DFA/main.py)
app == <<txt_path, save_path, plot_button, workers, progress, progress_label,
         widget_writes>>

(***************************************************************************)
(* Bounds of the model.                                                    *)
(***************************************************************************)
MaxLen == 6         \* longest exhaustively enumerated series (amplitudes 0, 1)
MaxLin == 13        \* longest exactly linear series a*t + b
MaxW == 4           \* largest window size a direct call is made with
MaxN == 14          \* longest series a sweep is run on
MaxInit == 3        \* largest initial_window_size of a sweep
MaxSteps == 5       \* largest window_size_step of a sweep

(***************************************************************************)
(* Exact arithmetic.                                                       *)
(***************************************************************************)
Abs(a) == IF a < 0 THEN -a ELSE a

Min(a, b) == IF a < b THEN a ELSE b

RECURSIVE GCD(_, _)
GCD(a, b) == IF b = 0 THEN a ELSE GCD(b, a % b)

NaN == [n |-> 0, d |-> 0]

IsNaN(r) == r.d = 0

Rat(n, d) ==
    IF d = 0 THEN NaN
    ELSE LET g == GCD(Abs(n), Abs(d))
             s == IF d < 0 THEN -1 ELSE 1
         IN  [n |-> (s * n) \div g, d |-> (s * d) \div g]

FromInt(i) == [n |-> i, d |-> 1]

Zero == FromInt(0)

RAdd(a, b) ==
    IF IsNaN(a) \/ IsNaN(b) THEN NaN
    ELSE LET g == GCD(a.d, b.d)
         IN  Rat(a.n * (b.d \div g) + b.n * (a.d \div g), (a.d \div g) * b.d)

RNeg(a) == IF IsNaN(a) THEN NaN ELSE [n |-> -a.n, d |-> a.d]

RSub(a, b) == RAdd(a, RNeg(b))

RMul(a, b) ==
    IF IsNaN(a) \/ IsNaN(b) THEN NaN
    ELSE LET g1 == GCD(Abs(a.n), b.d)
             g2 == GCD(Abs(b.n), a.d)
         IN  Rat((a.n \div g1) * (b.n \div g2), (a.d \div g2) * (b.d \div g1))

\* a / b in floating point: 0/0 is nan.  (A nonzero value is never divided
\* by zero in this program: the only zero divisor is the x-variance of a
\* one-point window, whose covariance is zero too.)
RDiv(a, b) ==
    IF IsNaN(a) \/ IsNaN(b) \/ b.n = 0 THEN NaN
    ELSE RMul(a, Rat(b.d, b.n))

RECURSIVE RSum(_)
RSum(s) == IF s = <<>> THEN Zero ELSE RAdd(s[1], RSum(Tail(s)))

\* torch.mean / np.mean of a one-dimensional tensor (nan when it is empty)
Mean(s) == RDiv(RSum(s), FromInt(Len(s)))

\* torch.cumsum(s, dim=0)
RECURSIVE Cumsum(_)
Cumsum(s) ==
    IF s = <<>> THEN <<>>
    ELSE LET n == Len(s)
             head == Cumsum(SubSeq(s, 1, n - 1))
         IN  Append(head, IF n = 1 THEN s[1] ELSE RAdd(head[n - 1], s[n]))

\* torch.arange(1., n + 1)
Arange1(n) == [i \in 1..n |-> FromInt(i)]

\* mutant: the slices aligned to the end of the tensor
Unfold_tail_aligned(s, size, step) ==
    [k \in 1..((Len(s) - size) \div step + 1) |->
        SubSeq(s, ((Len(s) - size) % step) + (k - 1) * step + 1,
                  ((Len(s) - size) % step) + (k - 1) * step + size)]

\* tensor.unfold(0, size, step): (len - size) // step + 1 slices, slice k
\* (0-based) holding the elements k*step .. k*step + size - 1
Unfold(s, size, step) ==
    [k \in 1..((Len(s) - size) \div step + 1) |->
        SubSeq(s, (k - 1) * step + 1, (k - 1) * step + size)]

\* torch.flatten of a two-dimensional tensor (row after row)
RECURSIVE Flatten(_)
Flatten(rows) == IF rows = <<>> THEN <<>> ELSE rows[1] \o Flatten(Tail(rows))

\* scipy.stats.linregress(xs, ys): slope = cov(x, y) / var(x),
\* intercept = mean(y) - slope * mean(x)
linregress(xs, ys) ==
    LET n == Len(xs)
        xmean == Mean(xs)
        ymean == Mean(ys)
        ssxm == Mean([i \in 1..n |-> RMul(RSub(xs[i], xmean), RSub(xs[i], xmean))])
        ssxym == Mean([i \in 1..n |-> RMul(RSub(xs[i], xmean), RSub(ys[i], ymean))])
        slope == RDiv(ssxym, ssxm)
    IN  [slope |-> slope, intercept |-> RSub(ymean, RMul(slope, xmean))]

(***************************************************************************)
(* DFA_Method(x, y, window_size), src/DFA/DFA.py:20-98 (plot flags off).   *)
(***************************************************************************)
\* mutant: the cumulative sum of the uncentred amplitudes
y_sum_uncentred(yv) == Cumsum(yv)

\* mutant: the centred amplitudes, not integrated
y_sum_not_integrated(yv) == LET m == Mean(yv) IN [i \in 1..Len(yv) |-> RSub(yv[i], m)]

\* 1. integrate the series
y_sum(yv) == LET m == Mean(yv) IN Cumsum([i \in 1..Len(yv) |-> RSub(yv[i], m)])

\* 2. number of windows
n_windows(ys, w) == Len(ys) \div w

y_windows(ys, w) == Unfold(ys, w, w)

t_epochs(xv, w) == Unfold(xv, w, w)

\* mutant: the windows are regressed against their time values
numerate_windows_time(xv, w) == Unfold(xv, w, w)

\* line 48: the 1-based global sample index, cut into the same windows
numerate_windows(xv, w) == Unfold(Arange1(Len(xv)), w, w)

\* mutant: the fitted line evaluated at the position inside the window
fitted_windows_local(nw, yw, n, w) ==
    [epoch \in 1..n |->
        LET lr == linregress(nw[epoch], yw[epoch])
        IN  [j \in 1..w |-> RAdd(RMul(lr.slope, FromInt(j)), lr.intercept)]]

\* 3. one fitted row per epoch in range(n_windows)
fitted_windows(nw, yw, n, w) ==
    [epoch \in 1..n |->
        LET lr == linregress(nw[epoch], yw[epoch])
        IN  [j \in 1..w |-> RAdd(RMul(lr.slope, nw[epoch][j]), lr.intercept)]]

\* 4. residuals, squared and flattened
deviations(yw, fw) ==
    [k \in 1..Len(yw) |-> [j \in 1..Len(yw[k]) |-> RSub(yw[k][j], fw[k][j])]]

RAbs(a) == [n |-> Abs(a.n), d |-> a.d]

\* mutant: absolute instead of squared residuals
sqrt_deviations_abs(dv) ==
    Flatten([k \in 1..Len(dv) |-> [j \in 1..Len(dv[k]) |-> RAbs(dv[k][j])]])

sqrt_deviations(dv) ==
    Flatten([k \in 1..Len(dv) |-> [j \in 1..Len(dv[k]) |-> RMul(dv[k][j], dv[k][j])]])

\* mutant: the unbiased estimator, dividing by the count minus one
fluctuation_unbiased(sq) == RDiv(RSum(sq), FromInt(Len(sq) - 1))

\* 6. mean of the pooled squared residuals
fluctuation(sq) == Mean(sq)

\* the outcome of a call that ends in an uncaught exception
Raised(error) == [status |-> "raised", error |-> error]

\* mutant: the residuals taken from the windows of the raw amplitudes y
\* instead of the integrated series y_sum
DFA_Method_raw_residuals(xv, yv, w) ==
    IF w = 0 \/ w > Len(yv)
    THEN Raised(IF w = 0 THEN "ZeroDivisionError" ELSE "RuntimeError")
    ELSE LET ys == y_sum(yv)
             n == n_windows(ys, w)
             yw == y_windows(ys, w)
             nw == numerate_windows(xv, w)
             fw == fitted_windows(nw, yw, n, w)
             dv == deviations(Unfold(yv, w, w), fw)
             sq == sqrt_deviations(dv)
         IN  [status |-> "returned",
              y_sum |-> ys,
              n_windows |-> n,
              y_windows |-> yw,
              t_epochs |-> t_epochs(xv, w),
              numerate_windows |-> nw,
              sqrt_deviations |-> sq,
              F |-> [sqrt_of |-> fluctuation(sq)]]

\* mutant: a window size above the length yields zero windows and the
\* mean of no residuals, nan, instead of an exception
DFA_Method_no_windows_nan(xv, yv, w) ==
    IF w = 0 THEN Raised("ZeroDivisionError")
    ELSE IF w > Len(yv)
    THEN [status |-> "returned",
          y_sum |-> y_sum(yv),
          n_windows |-> 0,
          y_windows |-> <<>>,
          t_epochs |-> <<>>,
          numerate_windows |-> <<>>,
          sqrt_deviations |-> <<>>,
          F |-> [sqrt_of |-> NaN]]
    ELSE LET ys == y_sum(yv)
             n == n_windows(ys, w)
             yw == y_windows(ys, w)
             nw == numerate_windows(xv, w)
             fw == fitted_windows(nw, yw, n, w)
             dv == deviations(yw, fw)
             sq == sqrt_deviations(dv)
         IN  [status |-> "returned",
              y_sum |-> ys,
              n_windows |-> n,
              y_windows |-> yw,
              t_epochs |-> t_epochs(xv, w),
              numerate_windows |-> nw,
              sqrt_deviations |-> sq,
              F |-> [sqrt_of |-> fluctuation(sq)]]

\* The call as a whole.  The code checks nothing and names no error of its
\* own: window_size = 0 raises ZeroDivisionError at the floor division of
\* line 40, window_size > len makes Tensor.unfold raise RuntimeError
\* (line 42); otherwise the locals and F are produced.  With window_size = 1
\* every window is one point, the regression divides 0 by 0 and F is nan.
DFA_Method(xv, yv, w) ==
    IF w = 0 \/ w > Len(yv)
    THEN Raised(IF w = 0 THEN "ZeroDivisionError" ELSE "RuntimeError")
    ELSE LET ys == y_sum(yv)
             n == n_windows(ys, w)
             yw == y_windows(ys, w)
             nw == numerate_windows(xv, w)
             fw == fitted_windows(nw, yw, n, w)
             dv == deviations(yw, fw)
             sq == sqrt_deviations(dv)
         IN  [status |-> "returned",
              y_sum |-> ys,
              n_windows |-> n,
              y_windows |-> yw,
              t_epochs |-> t_epochs(xv, w),
              numerate_windows |-> nw,
              sqrt_deviations |-> sq,
              F |-> [sqrt_of |-> fluctuation(sq)]]

NoFrame == [status |-> "none"]

(***************************************************************************)
(* Inputs.                                                                 *)
(***************************************************************************)
Seqs(S, lo, hi) == UNION {[1..n -> S] : n \in lo..hi}

Repeat(seed, n) == [i \in 1..n |-> seed[((i - 1) % Len(seed)) + 1]]

LinearSeries ==
    {[t \in 1..n |-> a * t + b] : n \in 2..MaxLin, a \in {-2, 0, 1}, b \in {0, 1}}

ToRat(s) == [i \in 1..Len(s) |-> FromInt(s[i])]

MethodSeries == {ToRat(s) : s \in Seqs({0, 1}, 2, MaxLen) \cup LinearSeries}

\* time axes for n samples: strictly increasing, uniform or not
UniformAxis(n) == [i \in 1..n |-> FromInt(i)]

TimeAxes(n) == {UniformAxis(n), [i \in 1..n |-> FromInt(i * i)]}

\* Python's None, as the value of a path
None == "None"

Idle ==
    /\ pc = "idle"
    /\ window_size = 0
    /\ frame = NoFrame
    /\ initial_window_size = 0
    /\ window_size_step = 0
    /\ has_hook = FALSE
    /\ Windows_sizes = <<>>
    /\ idx = 0
    /\ F_RMS = <<>>
    /\ sizes_called = <<>>
    /\ hook_calls = <<>>
    /\ integrations = 0
    /\ ret = <<>>

\* thread 0 is the main thread, thread t >= 1 the t-th thread started
MainThread == 0

\* App.__init__: no paths, the Plot button disabled, the progress bar at 0
\* and its label "- %".  When the functions of DFA.py are called without the
\* window these variables keep these values.
App_init ==
    /\ txt_path = None
    /\ save_path = None
    /\ plot_button = "disabled"
    /\ workers = <<>>
    /\ progress = Zero
    /\ progress_label = "- %"
    /\ widget_writes = [progress |-> MainThread, progress_label |-> MainThread]

InitMethod ==
    /\ y \in MethodSeries
    /\ x = UniformAxis(Len(y))
    /\ Idle
    /\ App_init

\* a direct call DFA_Method(x, y, w)
CallMethod ==
    /\ pc = "idle"
    /\ \E w \in 0..Min(Len(y) + 1, MaxW):
        /\ window_size' = w
        /\ frame' = DFA_Method(x, y, w)
    /\ integrations' = integrations + 1
    /\ pc' = "method_done"
    /\ UNCHANGED <<x, y, initial_window_size, window_size_step, has_hook,
                   Windows_sizes, idx, F_RMS, sizes_called, hook_calls, ret, app>>

NextMethod == CallMethod

SpecMethod == InitMethod /\ [][NextMethod]_vars

(***************************************************************************)
(* DFA_F_Plot(x, y, initial_window_size, window_size_step, ..., hook),     *)
(* src/DFA/DFA.py:101-176 (plot flags off).                                *)
(***************************************************************************)
RECURSIVE Pow(_, _)
Pow(b, e) == IF e = 0 THEN 1 ELSE b * Pow(b, e - 1)

Max(a, b) == IF a < b THEN b ELSE a

\* The values torch.round(torch.logspace(log10(init), log10(n / 4), steps))[i]
\* can take, i 0-based.  The i-th point is v = init^((E-i)/E) * (n/4)^(i/E)
\* with E = steps - 1 (v = init when steps = 1); it is compared with the
\* half-integers through (2v)^E = 2^E * init^(E-i) * n^i / 4^i.  When v is
\* exactly a half-integer the float 10^(...) lands on either side of it, so
\* either neighbour can result (torch.round itself rounds halves to even).
RoundedSize(init, n, steps, i) ==
    IF steps = 1 THEN {init}
    ELSE LET E == steps - 1
             X == Pow(2, E) * Pow(init, E - i) * Pow(n, i)
             L(r) == Pow(2 * r - 1, E) * Pow(4, i)
         IN  {r \in 0..(Max(init, n \div 4) + 1):
                /\ r = 0 \/ X >= L(r)
                /\ X <= L(r + 1)}

\* the rounded tensors the sweep can obtain, in logspace order (lines 130-132)
RECURSIVE RoundedPrefixes(_, _, _, _)
RoundedPrefixes(init, n, steps, k) ==
    IF k = 0 THEN {<<>>}
    ELSE {Append(p, r) : p \in RoundedPrefixes(init, n, steps, k - 1),
                         r \in RoundedSize(init, n, steps, k - 1)}

RoundedSizes(init, n, steps) == RoundedPrefixes(init, n, steps, steps)

\* mutant: the tensor left as it is, duplicates included
Unique_none(s) == s

\* torch.unique of a one-dimensional tensor: the distinct values, ascending
RECURSIVE Unique(_)
Unique(s) ==
    IF s = <<>> THEN <<>>
    ELSE LET vals == {s[k] : k \in 1..Len(s)}
             lo == CHOOSE v \in vals: \A u \in vals: v <= u
         IN  <<lo>> \o Unique(SelectSeq(s, LAMBDA v: v # lo))

\* lines 145-151: log10 of the sizes and of the F values, and the
\* regression of one on the other.  The slope and the intercept are real
\* numbers the model does not compute; it records whether they are finite:
\* log10(0) is -inf and log10(nan) is nan, and either, or a single point,
\* makes both results nan.  An empty input makes linregress raise.
LogLogFit(sizes, Fs) ==
    IF Len(sizes) = 0 THEN [status |-> "raised"]
    ELSE LET finite == /\ Len(sizes) >= 2
                       /\ \A k \in 1..Len(Fs):
                            ~IsNaN(Fs[k].sqrt_of) /\ Fs[k].sqrt_of # Zero
         IN  [status |-> "returned",
              m |-> [kind |-> "slope", finite |-> finite],
              b |-> [kind |-> "intercept", finite |-> finite]]

\* mutant: only the slope is returned
SweepReturn_slope_only(fit) == <<fit.m>>

\* line 176: return m, b
SweepReturn(fit) == <<fit.m, fit.b>>

\* the series a sweep is run on: a short pattern of amplitudes repeated
Seeds == {<<1>>, <<0, 0, 1>>, <<0, 1, 1, 0, 1>>}

SweepSeries == {ToRat(Repeat(seed, n)) : seed \in Seeds, n \in 2..MaxN}

Init ==
    /\ y \in SweepSeries
    /\ x \in TimeAxes(Len(y))
    /\ Idle
    /\ App_init

\* lines 126-135: the window sizes of the sweep
SweepStart ==
    /\ pc = "idle"
    /\ \E init \in 1..MaxInit, steps \in 0..MaxSteps, hook \in BOOLEAN:
        /\ initial_window_size' = init
        /\ window_size_step' = steps
        /\ has_hook' = hook
        /\ \E rounded \in RoundedSizes(init, Len(x), steps):
            Windows_sizes' = Unique(rounded)
    /\ F_RMS' = <<>>
    /\ idx' = 0
    /\ pc' = "loop"
    /\ UNCHANGED <<x, y, window_size, frame, sizes_called, hook_calls,
                   integrations, ret, app>>

\* mutant: the index as enumerate gives it, without the + 1
hook_value_zero_based(i, steps) == Rat(i * 100, steps)

\* line 140: the argument of the hook, (idx + 1) * 100 / window_size_step
hook_value(i, steps) == Rat((i + 1) * 100, steps)

\* lines 138-140: the next size is taken and the hook, if any, is called
LoopHook ==
    /\ pc = "loop"
    /\ idx < Len(Windows_sizes)
    /\ hook_calls' = IF has_hook
                     THEN Append(hook_calls, hook_value(idx, window_size_step))
                     ELSE hook_calls
    /\ pc' = "call"
    /\ UNCHANGED <<x, y, window_size, frame, initial_window_size, window_size_step,
                   has_hook, Windows_sizes, idx, F_RMS, sizes_called,
                   integrations, ret, app>>

\* mutant: an exception of DFA_Method is caught and the size skipped
LoopMethod_skips_failure ==
    /\ pc = "call"
    /\ LET i == Windows_sizes[idx + 1]
           r == DFA_Method(x, y, i)
       IN  /\ window_size' = i
           /\ frame' = r
           /\ sizes_called' = Append(sizes_called, i)
           /\ F_RMS' = IF r.status = "raised" THEN F_RMS ELSE Append(F_RMS, r.F)
           /\ idx' = idx + 1
           /\ pc' = "loop"
    /\ integrations' = integrations + 1
    /\ UNCHANGED <<x, y, initial_window_size, window_size_step, has_hook,
                   Windows_sizes, hook_calls, ret, app>>

\* mutant: the integrated series is computed by the first call only and
\* kept for the later ones
LoopMethod_integrates_once ==
    /\ pc = "call"
    /\ LET i == Windows_sizes[idx + 1]
           r == DFA_Method(x, y, i)
       IN  /\ window_size' = i
           /\ frame' = r
           /\ sizes_called' = Append(sizes_called, i)
           /\ IF r.status = "raised"
              THEN /\ pc' = "raised"
                   /\ UNCHANGED <<F_RMS, idx>>
              ELSE /\ F_RMS' = Append(F_RMS, r.F)
                   /\ idx' = idx + 1
                   /\ pc' = "loop"
    /\ integrations' = IF integrations = 0 THEN 1 ELSE integrations
    /\ UNCHANGED <<x, y, initial_window_size, window_size_step, has_hook,
                   Windows_sizes, hook_calls, ret, app>>

\* line 142: DFA_Method for the size, its F appended to F_RMS; an exception
\* of DFA_Method ends the sweep.  Every call integrates the series anew
\* (line 36, before anything can raise).
LoopMethod ==
    /\ pc = "call"
    /\ LET i == Windows_sizes[idx + 1]
           r == DFA_Method(x, y, i)
       IN  /\ window_size' = i
           /\ frame' = r
           /\ sizes_called' = Append(sizes_called, i)
           /\ IF r.status = "raised"
              THEN /\ pc' = "raised"
                   /\ UNCHANGED <<F_RMS, idx>>
              ELSE /\ F_RMS' = Append(F_RMS, r.F)
                   /\ idx' = idx + 1
                   /\ pc' = "loop"
    /\ integrations' = integrations + 1
    /\ UNCHANGED <<x, y, initial_window_size, window_size_step, has_hook,
                   Windows_sizes, hook_calls, ret, app>>

\* lines 144-176: the loop is over; the log-log regression and the return
SweepFinish ==
    /\ pc = "loop"
    /\ idx = Len(Windows_sizes)
    /\ LET fit == LogLogFit(Windows_sizes, F_RMS)
       IN  IF fit.status = "raised"
           THEN pc' = "raised" /\ ret' = ret
           ELSE pc' = "done" /\ ret' = SweepReturn(fit)
    /\ UNCHANGED <<x, y, window_size, frame, initial_window_size, window_size_step,
                   has_hook, Windows_sizes, idx, F_RMS, sizes_called, hook_calls,
                   integrations, app>>

Next == SweepStart \/ LoopHook \/ LoopMethod \/ SweepFinish

Spec == Init /\ [][Next]_vars

(***************************************************************************)
(* The window, src/DFA/main.py.  The handlers of the buttons run on the    *)
(* main thread, one at a time; App.plot_data starts a thread that runs     *)
(* DFA_F_Plot with App.hook as its hook.                                   *)
(***************************************************************************)
\* what the dialogs can return: "" when cancelled
FilePaths == {"a.txt"}

Directories == {"out"}

\* the amplitude column of a data file (np.loadtxt, lines 94-101)
FileData(path) == ToRat(<<0, 1, 1, 0, 1, 0, 0, 1>>)

\* what the user can have typed into the two entries
EntrySizes == {1}

EntrySteps == {2, 3}

\* truth value of a path in "if self.save_path and self.txt_path"
Truthy(path) == path # None /\ path # ""

\* _ready_to_plot (lines 119-132): enables the controls when both paths are
\* set; it never disables them
ready_to_plot(sp, tp, button) ==
    IF Truthy(sp) /\ Truthy(tp) THEN "enabled" ELSE button

InitApp ==
    /\ x = <<>>
    /\ y = <<>>
    /\ Idle
    /\ App_init

\* import_file_data (lines 85-103): the dialog's answer becomes txt_path even
\* when it is empty; a non-empty one is loaded
import_file_data ==
    /\ \E path \in FilePaths \cup {""}:
        /\ txt_path' = path
        /\ IF path # ""
           THEN /\ y' = FileData(path)
                /\ x' = UniformAxis(Len(FileData(path)))
                /\ plot_button' = ready_to_plot(save_path, path, plot_button)
           ELSE UNCHANGED <<x, y, plot_button>>
    /\ UNCHANGED <<pc, window_size, frame, initial_window_size, window_size_step,
                   has_hook, Windows_sizes, idx, F_RMS, sizes_called, hook_calls,
                   integrations, ret, save_path, workers, progress,
                   progress_label, widget_writes>>

\* save_directory (lines 105-108)
save_directory ==
    /\ \E path \in Directories \cup {""}:
        /\ save_path' = path
        /\ plot_button' = ready_to_plot(path, txt_path, plot_button)
    /\ UNCHANGED <<x, y, pc, window_size, frame, initial_window_size,
                   window_size_step, has_hook, Windows_sizes, idx, F_RMS,
                   sizes_called, hook_calls, integrations, ret, txt_path,
                   workers, progress, progress_label, widget_writes>>

\* the threads the Plot button is pressed for
Threads == {1, 2}

\* plot_data (lines 110-113), the command of the Plot button: a thread is
\* started on DFA_F_Plot with the tensors and entries as they are now.  The
\* thread's first statements (DFA.py:126-135) touch nothing shared and are
\* taken with the start.
plot_data ==
    /\ plot_button = "enabled"
    /\ Len(workers) < Cardinality(Threads)
    /\ \E init \in EntrySizes, steps \in EntrySteps:
        \E rounded \in RoundedSizes(init, Len(x), steps):
            workers' = Append(workers,
                [pc |-> "loop", x |-> x, y |-> y,
                 window_size_step |-> steps,
                 Windows_sizes |-> Unique(rounded),
                 idx |-> 0, F_RMS |-> <<>>, ret |-> <<>>])
    /\ UNCHANGED <<x, y, pc, window_size, frame, initial_window_size,
                   window_size_step, has_hook, Windows_sizes, idx, F_RMS,
                   sizes_called, hook_calls, integrations, ret, txt_path,
                   save_path, plot_button, progress, progress_label,
                   widget_writes>>

\* the number in the label's text, str(int(i)): the value truncated
LabelText(v) == ToString(v.n \div v.d) \o " %"

\* DFA.py:139-140 in thread t, and the first statement of App.hook
\* (main.py:116), executed by the thread that called the hook
hook_value_write ==
    \E t \in 1..Len(workers):
        /\ workers[t].pc = "loop"
        /\ workers[t].idx < Len(workers[t].Windows_sizes)
        /\ LET i == hook_value(workers[t].idx, workers[t].window_size_step)
           IN  /\ progress' = i
               /\ widget_writes' = [widget_writes EXCEPT !.progress = t]
        /\ workers' = [workers EXCEPT ![t].pc = "hook"]
        /\ UNCHANGED <<x, y, pc, window_size, frame, initial_window_size,
                       window_size_step, has_hook, Windows_sizes, idx, F_RMS,
                       sizes_called, hook_calls, integrations, ret, txt_path,
                       save_path, plot_button, progress_label>>

\* the second statement of App.hook (main.py:117) in thread t
hook_label_write ==
    \E t \in 1..Len(workers):
        /\ workers[t].pc = "hook"
        /\ LET i == hook_value(workers[t].idx, workers[t].window_size_step)
           IN  /\ progress_label' = LabelText(i)
               /\ widget_writes' = [widget_writes EXCEPT !.progress_label = t]
        /\ workers' = [workers EXCEPT ![t].pc = "call"]
        /\ UNCHANGED <<x, y, pc, window_size, frame, initial_window_size,
                       window_size_step, has_hook, Windows_sizes, idx, F_RMS,
                       sizes_called, hook_calls, integrations, ret, txt_path,
                       save_path, plot_button, progress>>

\* DFA.py:142 in thread t; an exception ends the thread
worker_method ==
    \E t \in 1..Len(workers):
        /\ workers[t].pc = "call"
        /\ LET w == workers[t]
               r == DFA_Method(w.x, w.y, w.Windows_sizes[w.idx + 1])
           IN  workers' = [workers EXCEPT ![t] =
                    IF r.status = "raised"
                    THEN [w EXCEPT !.pc = "raised"]
                    ELSE [w EXCEPT !.pc = "loop",
                                   !.idx = w.idx + 1,
                                   !.F_RMS = Append(w.F_RMS, r.F)]]
        /\ integrations' = integrations + 1
        /\ UNCHANGED <<x, y, pc, window_size, frame, initial_window_size,
                       window_size_step, has_hook, Windows_sizes, idx, F_RMS,
                       sizes_called, hook_calls, ret, txt_path, save_path,
                       plot_button, progress, progress_label, widget_writes>>

\* DFA.py:144-176 in thread t; the returned pair is dropped with the thread
worker_finish ==
    \E t \in 1..Len(workers):
        /\ workers[t].pc = "loop"
        /\ workers[t].idx = Len(workers[t].Windows_sizes)
        /\ LET w == workers[t]
               fit == LogLogFit(w.Windows_sizes, w.F_RMS)
           IN  workers' = [workers EXCEPT ![t] =
                    IF fit.status = "raised"
                    THEN [w EXCEPT !.pc = "raised"]
                    ELSE [w EXCEPT !.pc = "done", !.ret = SweepReturn(fit)]]
        /\ UNCHANGED <<x, y, pc, window_size, frame, initial_window_size,
                       window_size_step, has_hook, Windows_sizes, idx, F_RMS,
                       sizes_called, hook_calls, integrations, ret, txt_path,
                       save_path, plot_button, progress, progress_label,
                       widget_writes>>

NextApp ==
    \/ import_file_data
    \/ save_directory
    \/ plot_data
    \/ hook_value_write
    \/ hook_label_write
    \/ worker_method
    \/ worker_finish

SpecApp == InitApp /\ [][NextApp]_vars

(***************************************************************************)
(* Properties of DFA_Method, checked under SpecMethod.                     *)
(***************************************************************************)
\* the state after a direct call with a valid window size 2 <= w <= N
Returned ==
    /\ pc = "method_done"
    /\ frame.status = "returned"
    /\ window_size >= 2

SeriesLen == Len(y)

Remainder == SeriesLen % window_size

FZero == [sqrt_of |-> Zero]

\* residual sum of squares of the least-squares line through (xs, ys), by
\* the closed form Syy - Sxy^2 / Sxx
WindowRSS(xs, ys) ==
    LET n == Len(xs)
        xm == Mean(xs)
        ym == Mean(ys)
        sxx == RSum([i \in 1..n |-> RMul(RSub(xs[i], xm), RSub(xs[i], xm))])
        syy == RSum([i \in 1..n |-> RMul(RSub(ys[i], ym), RSub(ys[i], ym))])
        sxy == RSum([i \in 1..n |-> RMul(RSub(xs[i], xm), RSub(ys[i], ym))])
    IN  RSub(syy, RDiv(RMul(sxy, sxy), sxx))

FrameRSS(k) == WindowRSS(frame.numerate_windows[k], frame.y_windows[k])

C2_Windows ==
    Returned =>
        LET nw == SeriesLen \div window_size
            covered == {frame.numerate_windows[k][j].n :
                            k \in 1..Len(frame.numerate_windows), j \in 1..window_size}
        IN  /\ frame.n_windows = nw
            /\ Len(frame.numerate_windows) = nw
            /\ Len(frame.y_windows) = nw
            /\ Len(frame.sqrt_deviations) = nw * window_size
            /\ \A k \in 1..nw:
                /\ frame.numerate_windows[k]
                     = [j \in 1..window_size |-> FromInt((k - 1) * window_size + j)]
                /\ frame.y_windows[k]
                     = [j \in 1..window_size |-> frame.y_sum[(k - 1) * window_size + j]]
            /\ covered = 1..(nw * window_size)
            /\ \A i \in (SeriesLen - Remainder + 1)..SeriesLen: i \notin covered

C2_Witness ==
    /\ Returned
    /\ frame.n_windows >= 3
    /\ Remainder >= 1

\* the series that agree with yv outside its last r samples
TailVals == {-1, 2}

TailVariants(yv, r) ==
    {SubSeq(yv, 1, Len(yv) - r) \o ToRat(t) : t \in [1..r -> TailVals]}

\* C3: the trailing remainder never influences F: every series that agrees
\* with y on the first w*floor(N/w) samples gives the same F.
C3_TailIgnored ==
    Returned =>
        \A y2 \in TailVariants(y, Remainder):
            DFA_Method(x, y2, window_size).F = frame.F

C3_Witness ==
    /\ Returned
    /\ Remainder >= 2
    /\ frame.F # FZero
    /\ \E y2 \in TailVariants(y, Remainder): Mean(y2) # Mean(y)

IsConstant(yv) == \A i \in 1..Len(yv): yv[i] = yv[1]

\* C4: a series of constant amplitude gives F == 0 for every valid w.
C4_ConstantZero == (Returned /\ IsConstant(y)) => frame.F = FZero

C4_Witness ==
    /\ Returned
    /\ IsConstant(y)
    /\ y[1] # Zero
    /\ window_size >= 3
    /\ Remainder > 0

\* amplitude = a*t + b for the sample position t
IsLinear(yv) ==
    \A i \in 2..Len(yv): RSub(yv[i], yv[i - 1]) = RSub(yv[2], yv[1])

LinSlope(yv) == RSub(yv[2], yv[1])

\* C5 as stated: an exactly linear series gives F == 0.
C5_LinearZero == (Returned /\ IsLinear(y)) => frame.F = FZero

\* C5 amended: the integrated series of a*t + b is quadratic, and
\* F^2 = a^2 * (w^2 - 1) * (w^2 - 4) / 720, which is 0 only for a = 0 or w = 2.
C5_LinearQuadratic ==
    (Returned /\ IsLinear(y)) =>
        LET a == LinSlope(y)
            w == window_size
        IN  /\ frame.F.sqrt_of
                 = RMul(RMul(a, a), Rat((w * w - 1) * (w * w - 4), 720))
            /\ (frame.F = FZero) <=> (a = Zero \/ w = 2)

\* amplitudes 1..12 with window size 4: F = 1/2, not 0
C5_Witness ==
    /\ Returned
    /\ y = ToRat([t \in 1..12 |-> t])
    /\ window_size = 4
    /\ frame.n_windows = 3
    /\ frame.F = [sqrt_of |-> Rat(1, 4)]

Offsets == {-2, 1, 3}

Factors == {-2, -1, 0, 3}

Offset(yv, c) == [i \in 1..Len(yv) |-> RAdd(yv[i], FromInt(c))]

Scale(yv, k) == [i \in 1..Len(yv) |-> RMul(FromInt(k), yv[i])]

\* C6: a uniform additive offset changes neither the integrated series
\* cumsum(y - mean(y)) nor F.
C6_OffsetInvariant ==
    Returned =>
        \A c \in Offsets:
            LET shifted == DFA_Method(x, Offset(y, c), window_size)
            IN  /\ shifted.y_sum = frame.y_sum
                /\ shifted.F = frame.F

C6_Witness ==
    /\ Returned
    /\ frame.F # FZero
    /\ Remainder > 0
    /\ \E c \in Offsets: Mean(Offset(y, c)) # Mean(y)

\* C7: F(k*y) = |k| * F(y), i.e. the mean of the squared residuals scales
\* by k^2.
C7_Homogeneous ==
    Returned =>
        \A k \in Factors:
            DFA_Method(x, Scale(y, k), window_size).F.sqrt_of
                = RMul(FromInt(k * k), frame.F.sqrt_of)

C7_Witness ==
    /\ Returned
    /\ frame.F # FZero
    /\ \E k \in Factors: k < -1 /\ Scale(y, k) # y

\* the state after a direct call, whatever its window size
Called == pc = "method_done"

\* C12 as stated: a window size above the series length fails with
\* InsufficientDataError and returns no F.
C12_InsufficientDataError ==
    (Called /\ window_size > SeriesLen) =>
        /\ frame.status = "raised"
        /\ frame.error = "InsufficientDataError"

\* C12 amended: a window size above the series length makes the call fail
\* with the RuntimeError of Tensor.unfold and return no F.
C12_UnfoldRaises ==
    (Called /\ window_size > SeriesLen) =>
        /\ frame.status = "raised"
        /\ frame.error = "RuntimeError"
        /\ "F" \notin DOMAIN frame

C12_Witness ==
    /\ Called
    /\ window_size = SeriesLen + 1
    /\ SeriesLen \div window_size = 0
    /\ frame.status = "raised"

\* C13: a window size below 2 makes the call fail and return no F (the
\* class of the error left open).
C13_RejectsSmallWindow ==
    (Called /\ window_size < 2) =>
        /\ frame.status = "raised"
        /\ "F" \notin DOMAIN frame

\* C22: F depends on the length of the time axis, not on its values: every
\* window is regressed against the 1-based global index of its samples, so
\* the call gives the same F with any other time axis of the same length.
C22_TimeAxisIgnored ==
    Returned =>
        /\ \A k \in 1..frame.n_windows:
            frame.numerate_windows[k]
                = [j \in 1..window_size |-> FromInt((k - 1) * window_size + j)]
        /\ \A x2 \in TimeAxes(SeriesLen):
            DFA_Method(x2, y, window_size).F = frame.F

\* a call with several windows and F > 0 for which a time axis with other
\* values (non-uniform) exists
C22_Witness ==
    /\ Returned
    /\ frame.n_windows >= 2
    /\ window_size >= 3
    /\ frame.F # FZero
    /\ \E x2 \in TimeAxes(SeriesLen):
        DFA_Method(x2, y, window_size).t_epochs # frame.t_epochs

(***************************************************************************)
(* Properties of DFA_F_Plot, checked under Spec.                           *)
(***************************************************************************)
StrictlyIncreasing(s) == \A i, j \in 1..Len(s): i < j => s[i] < s[j]

\* C8: the window sizes processed are pairwise distinct and strictly
\* increasing in processing order, and at most window_size_step many; so
\* are the collected F values.
C8_DistinctIncreasing ==
    /\ StrictlyIncreasing(sizes_called)
    /\ Len(sizes_called) <= window_size_step
    /\ Len(F_RMS) <= Len(sizes_called)
    /\ pc = "done" => sizes_called = Windows_sizes /\ Len(F_RMS) = Len(sizes_called)

\* a finished sweep in which rounding produced duplicates
C8_Witness ==
    /\ pc = "done"
    /\ Len(sizes_called) >= 2
    /\ Len(sizes_called) < window_size_step

\* C9 as stated: every window size DFA_Method is invoked with is at most
\* N/4 (stated for the sweeps whose initial_window_size is itself within
\* N/4, so that a violation is one of the sweep's own sizes).
C9_AtMostQuarter ==
    4 * initial_window_size <= Len(x) =>
        \A k \in 1..Len(sizes_called): 4 * sizes_called[k] <= Len(x)

\* the (windowSize, F) points of the sweep
Points == [k \in 1..Len(F_RMS) |-> <<Windows_sizes[k], F_RMS[k]>>]

RLess(a, b) == a.n * b.d < b.n * a.d

Hundred == FromInt(100)

\* C11: with a hook, it is invoked once for every window size the loop
\* reaches, the k-th time with k * 100 / window_size_step (the nominal step
\* count); the values increase strictly and never exceed 100, and a finished
\* sweep has reported once per realized size, ending at 100 exactly when
\* rounding removed no size.  Without a hook nothing is reported.
C11_HookPerSize ==
    /\ ~has_hook => hook_calls = <<>>
    /\ has_hook =>
        /\ Len(hook_calls) = Len(sizes_called) + (IF pc = "call" THEN 1 ELSE 0)
        /\ \A k \in 1..Len(hook_calls):
            /\ hook_calls[k] = Rat(k * 100, window_size_step)
            /\ ~RLess(Hundred, hook_calls[k])
            /\ k > 1 => RLess(hook_calls[k - 1], hook_calls[k])
        /\ pc = "done" =>
            /\ Len(hook_calls) = Len(Windows_sizes)
            /\ hook_calls[Len(hook_calls)] = Hundred
                  <=> Len(Windows_sizes) = window_size_step

\* a finished sweep with a hook in which rounding removed sizes: the last
\* reported value stays below 100
C11_Witness ==
    /\ pc = "done"
    /\ has_hook
    /\ Len(hook_calls) >= 2
    /\ Len(hook_calls) < window_size_step
    /\ RLess(hook_calls[Len(hook_calls)], Hundred)

\* C14: a sweep whose initial_window_size is above N/4 fails before any
\* window size is processed: no DFA_Method call, no hook call, no result
\* (stated for the sweeps of at least 2 steps, so that a violation comes
\* from the range alone).
C14_RangeChecked ==
    (pc # "idle" /\ window_size_step >= 2 /\ 4 * initial_window_size > Len(x)) =>
        /\ sizes_called = <<>>
        /\ hook_calls = <<>>
        /\ pc # "done"

\* the sweep was requested with at least 2 steps from a size within N/4
ValidRequest ==
    /\ pc # "idle"
    /\ window_size_step >= 2
    /\ 4 * initial_window_size <= Len(x)

\* C15: a sweep in which some window size gave F exactly 0 does not
\* return an exponent and intercept (stated for the valid requests that
\* realize at least 2 sizes).
C15_ZeroFFails ==
    (/\ ValidRequest
     /\ Len(Windows_sizes) >= 2
     /\ \E k \in 1..Len(F_RMS): F_RMS[k] = FZero) =>
        /\ pc # "done"
        /\ ret = <<>>

\* C16: when DFA_Method fails for a window size the sweep ends there: the
\* sizes were processed in order without a gap, every size before the
\* failing one gave a point, nothing is processed after it and nothing is
\* returned.
C16_SweepFails ==
    /\ sizes_called = SubSeq(Windows_sizes, 1, Len(sizes_called))
    /\ Len(F_RMS) = Len(sizes_called) - (IF frame.status = "raised" THEN 1 ELSE 0)
    /\ frame.status = "raised" =>
        /\ pc = "raised"
        /\ ret = <<>>
        /\ idx = Len(F_RMS)
        /\ window_size = sizes_called[Len(sizes_called)]

\* a sweep that failed at a size with further sizes left unprocessed
C16_Witness ==
    /\ pc = "raised"
    /\ frame.status = "raised"
    /\ Len(sizes_called) < Len(Windows_sizes)

\* C17: a sweep requested with fewer than 2 steps fails without processing
\* a window size and without a result (stated for an initial size within
\* N/4, so that a violation comes from the step count alone).
C17_StepCountChecked ==
    (pc # "idle" /\ window_size_step < 2 /\ 4 * initial_window_size <= Len(x)) =>
        /\ sizes_called = <<>>
        /\ pc # "done"

\* C18: the hook is invoked for a step only after the step's F has been
\* appended: the hook has never reported more steps than points collected.
C18_HookAfterPoint == Len(hook_calls) <= Len(F_RMS)

C20_WidgetsOnMainThread ==
    /\ widget_writes.progress = MainThread
    /\ widget_writes.progress_label = MainThread

\* C21: the Plot button starts disabled and is enabled only while both a
\* data file path and a save directory are set and non-empty.
C21_PlotOnlyWhenReady ==
    plot_button = "enabled" => Truthy(txt_path) /\ Truthy(save_path)

\* the threads that have not finished their sweep
Running == {t \in 1..Len(workers): workers[t].pc \notin {"done", "raised"}}

\* C23: at most one thread started by the Plot button is running a sweep
\* at any time.
C23_OneSweepAtATime == Cardinality(Running) <= 1

====
